---- MODULE Spec2Model ----
(***************************************************************************)
(* Model of the airport weather system V3:                                 *)
(*   - rain_analysis_V3.py : analyze_rain_events / format_event            *)
(*   - metar_parser_V3.py  : parse_metar                                   *)
(*   - app_V3.py           : the batch splitting of page_metar             *)
(*                                                                         *)
(* Texts are sequences of one-character strings.  The Chinese literals of  *)
(* the source are written with ASCII names:                                *)
(*   rain categories  yuting -> "stopped", maomaoyu -> "drizzle",          *)
(*   xiaoyu -> "light", zhongyu -> "moderate", dayu -> "heavy",            *)
(*   baoyu -> "torrential", leizhenyu -> "thunderShower";                  *)
(*   columns  shijian -> "time", yuqiang -> "rain", qiangdu -> "strength", *)
(*   daima -> "code", beizhu -> "note".                                    *)
(***************************************************************************)
EXTENDS Integers, Sequences, FiniteSets, TLC

VARIABLES
    \* ---- analyze_rain_events ----
    df,          \* the caller's sample collection (rows in the caller's order)
    df_columns,  \* the columns of the caller's collection
    rows,        \* the local, sorted frame (df = df.sort_values(...))
    rpc,         \* position inside analyze_rain_events
    ri,          \* index of the next row of the for loop
    current,     \* the open buffer
    events,      \* the emitted events (lists of rows)
    rain_result, \* the returned list of formatted events, or the raised error
    \* ---- format_event called on its own ----
    fe_records,  \* the argument of format_event
    fe_result,   \* what format_event returned or raised
    fpc,         \* "call" before the call, "done" after it
    \* ---- parse_metar ----
    text_in,     \* the argument of parse_metar
    text,        \* the local variable text (after the preprocessing)
    result,      \* the result dictionary
    mpc,         \* position inside parse_metar
    rule,        \* index of the next rule of WEATHER_PATTERNS
    \* ---- the button handler of page_metar ----
    raw_block,   \* the pasted block
    parts,       \* text.split("=")
    bi,          \* index of the next part of the for loop
    count,       \* the number of parsed reports
    reports,     \* the one_line strings handed to parse_metar, in order
    inserted,    \* the records handed to insert_metar, in order
    message,     \* the message shown: "none", "warning" or "success"
    bpc          \* position inside the handler

rainVars == <<df, df_columns, rows, rpc, ri, current, events, rain_result>>

formatVars == <<fe_records, fe_result, fpc>>

metarVars == <<text_in, text, result, mpc, rule>>

batchVars == <<raw_block, parts, bi, count, reports, inserted, message, bpc>>

vars == <<df, df_columns, rows, rpc, ri, current, events, rain_result,
          fe_records, fe_result, fpc,
          text_in, text, result, mpc, rule,
          raw_block, parts, bi, count, reports, inserted, message, bpc>>

----------------------------------------------------------------------------
(* Bounds *)
MaxSamples == 3       \* rows in the caller's collection
MaxTime == 2          \* distinct timestamps 0..MaxTime (times 90 seconds)
MaxRecords == 3       \* members of an event handed to format_event alone
MaxTokens == 3        \* tokens of a report text
MaxPieces == 4        \* pieces of a pasted block

----------------------------------------------------------------------------
(* Generic helpers *)

\* Optional values: None is the empty tuple, a value v is <<v>>.
None == <<>>

Some(v) == <<v>>

Perms(n) == {p \in [1..n -> 1..n] : \A a, b \in 1..n : a # b => p[a] # p[b]}

----------------------------------------------------------------------------
(* Texts: sequences of one-character strings, and the pieces of Python's    *)
(* str and re that the program uses on them.                                *)

Digits == <<"0", "1", "2", "3", "4", "5", "6", "7", "8", "9">>

IsDigit(c) == \E d \in 1..Len(Digits) : Digits[d] = c

DigitValue(c) == (CHOOSE d \in 1..Len(Digits) : Digits[d] = c) - 1

Upper ==
    {"A", "B", "C", "D", "E", "F", "G", "H", "I", "J", "K", "L", "M",
     "N", "O", "P", "Q", "R", "S", "T", "U", "V", "W", "X", "Y", "Z"}

\* \s of re and the separators of str.split() / str.strip()
IsSpace(c) == c \in {" ", "\n", "\t"}

\* \w of re, on the characters the texts are made of
IsWord(c) == IsDigit(c) \/ c \in Upper

\* int(s) for a string of digits
RECURSIVE ToInt(_)
ToInt(s) ==
    IF s = <<>> THEN 0
    ELSE 10 * ToInt(SubSeq(s, 1, Len(s) - 1)) + DigitValue(s[Len(s)])

\* \b at position i: between t[i-1] and t[i], exactly one is a word character.
Boundary(t, i) ==
    LET before == i > 1 /\ i - 1 <= Len(t) /\ IsWord(t[i - 1])
        after == i >= 1 /\ i <= Len(t) /\ IsWord(t[i])
    IN  before # after

\* the literal lit occurs in t at position i
LitAt(t, i, lit) ==
    /\ i >= 1
    /\ i + Len(lit) - 1 <= Len(t)
    /\ \A k \in 1..Len(lit) : t[i + k - 1] = lit[k]

\* n digits occur in t at position i
DigitsAt(t, i, n) ==
    /\ i >= 1
    /\ i + n - 1 <= Len(t)
    /\ \A k \in 0..(n - 1) : IsDigit(t[i + k])

\* re.search(r'\bLIT\b', t) when bounded, re.search(r'LIT', t) otherwise
Search(t, lit, bounded) ==
    \E i \in 1..Len(t) :
        /\ LitAt(t, i, lit)
        /\ bounded => (Boundary(t, i) /\ Boundary(t, i + Len(lit)))

\* str.split(): the maximal runs of non-space characters
RECURSIVE SplitFrom(_, _, _, _)
SplitFrom(t, i, cur, acc) ==
    IF i > Len(t)
    THEN IF cur = <<>> THEN acc ELSE Append(acc, cur)
    ELSE IF IsSpace(t[i])
         THEN SplitFrom(t, i + 1, <<>>, IF cur = <<>> THEN acc ELSE Append(acc, cur))
         ELSE SplitFrom(t, i + 1, Append(cur, t[i]), acc)

Split(t) == SplitFrom(t, 1, <<>>, <<>>)

\* sep.join(words)
RECURSIVE Join(_, _)
Join(words, sep) ==
    IF words = <<>> THEN <<>>
    ELSE IF Len(words) = 1 THEN words[1]
    ELSE words[1] \o sep \o Join(Tail(words), sep)

\* str.strip()
RECURSIVE LStrip(_)
LStrip(t) == IF t # <<>> /\ IsSpace(t[1]) THEN LStrip(Tail(t)) ELSE t

RECURSIVE RStrip(_)
RStrip(t) ==
    IF t # <<>> /\ IsSpace(t[Len(t)]) THEN RStrip(SubSeq(t, 1, Len(t) - 1)) ELSE t

Strip(t) == RStrip(LStrip(t))

\* t.replace(c, "")
Remove(t, c) == SelectSeq(t, LAMBDA x : x # c)

\* t.split(c) for a one-character separator: the pieces between the
\* separators, empty pieces included
RECURSIVE SplitOnFrom(_, _, _, _, _)
SplitOnFrom(t, c, i, cur, acc) ==
    IF i > Len(t) THEN Append(acc, cur)
    ELSE IF t[i] = c
         THEN SplitOnFrom(t, c, i + 1, <<>>, Append(acc, cur))
         ELSE SplitOnFrom(t, c, i + 1, Append(cur, t[i]), acc)

SplitOn(t, c) == SplitOnFrom(t, c, 1, <<>>, <<>>)

----------------------------------------------------------------------------
(* metar_parser_V3.py: parse_metar.  The Chinese descriptions are written  *)
(* in English.  The passes for station, obs_time, wind_variable,           *)
(* temperature, dewpoint, pressure_qnh and is_corrected write fields that   *)
(* no other pass reads; they are left out.                                  *)

\* Variant of Preprocess: the "=" are kept.
Preprocess_keepEquals(t) == Join(Split(Strip(t)), <<" ">>)

\* text.strip(); " ".join(text.split()); text.replace("=", "")
Preprocess(t) == Remove(Join(Split(Strip(t)), <<" ">>), "=")

\* The result dictionary as created.
InitialResult(t) ==
    [raw |-> t,
     wind_direction |-> None,
     wind_speed |-> None,
     wind_gust |-> None,
     visibility |-> None,
     visibility_description |-> None,
     is_raining |-> FALSE,
     rain_type |-> None,
     weather |-> <<>>,
     clouds |-> <<>>,
     cavok |-> FALSE]

\* Variant of MpsToKt: the product is truncated.
MpsToKt_truncated(v) == (v * 1944) \div 1000

\* round(v * 1.944): v * 1.944 is never half-way between two integers
\* (1.944 = 243/125), so rounding is to the nearest integer.
MpsToKt(v) == (v * 1944 + 500) \div 1000

WindUnits == <<<<"K", "T">>, <<"M", "P", "S">>>>

\* The alternatives of (\d{2,3})(?:G(\d{2,3}))? in the order the regex
\* engine tries them: speed and gust greedy, the gust group before its
\* absence.  gust = 0 stands for the absent group.
WindShapes ==
    <<[speed |-> 3, gust |-> 3], [speed |-> 3, gust |-> 2], [speed |-> 3, gust |-> 0],
      [speed |-> 2, gust |-> 3], [speed |-> 2, gust |-> 2], [speed |-> 2, gust |-> 0]>>

\* \b(VRB|\d{3})(\d{2,3})(?:G(\d{2,3}))?(KT|MPS)\b matched at position i
\* with the given alternative and unit
WindShapeAt(t, i, shape, unit) ==
    LET s == i + 3
        g == s + shape.speed
        u == IF shape.gust = 0 THEN g ELSE g + 1 + shape.gust
    IN  /\ Boundary(t, i)
        /\ LitAt(t, i, <<"V", "R", "B">>) \/ DigitsAt(t, i, 3)
        /\ DigitsAt(t, s, shape.speed)
        /\ shape.gust # 0 => (LitAt(t, g, <<"G">>) /\ DigitsAt(t, g + 1, shape.gust))
        /\ LitAt(t, u, unit)
        /\ Boundary(t, u + Len(unit))

WindAt(t, i) ==
    \E a \in 1..Len(WindShapes), b \in 1..Len(WindUnits) :
        WindShapeAt(t, i, WindShapes[a], WindUnits[b])

\* re.search of the wind pattern: the groups of the leftmost match, None
\* without a match.
WindMatch(t) ==
    IF \E i \in 1..Len(t) : WindAt(t, i)
    THEN LET i == CHOOSE i \in 1..Len(t) :
                    WindAt(t, i) /\ \A j \in 1..(i - 1) : ~WindAt(t, j)
             a == CHOOSE a \in 1..Len(WindShapes) :
                    /\ \E b \in 1..Len(WindUnits) :
                            WindShapeAt(t, i, WindShapes[a], WindUnits[b])
                    /\ \A c \in 1..(a - 1) : \A b \in 1..Len(WindUnits) :
                            ~WindShapeAt(t, i, WindShapes[c], WindUnits[b])
             shape == WindShapes[a]
             unit == WindUnits[CHOOSE b \in 1..Len(WindUnits) :
                                WindShapeAt(t, i, shape, WindUnits[b])]
         IN  Some([direction |-> SubSeq(t, i, i + 2),
                   speed |-> SubSeq(t, i + 3, i + 2 + shape.speed),
                   gust |-> IF shape.gust = 0 THEN <<>>
                            ELSE SubSeq(t, i + 4 + shape.speed,
                                        i + 3 + shape.speed + shape.gust),
                   unit |-> unit])
    ELSE None

\* The wind pass: direction, speed and gust, converted to knots.
ExtractWindFrom(res, t) ==
    LET wind_match == WindMatch(t)
    IN  IF wind_match = None THEN res
        ELSE LET m == wind_match[1]
                 conv(v) == IF m.unit = <<"M", "P", "S">> THEN MpsToKt(v) ELSE v
             IN  [res EXCEPT
                    !.wind_direction =
                        IF m.direction # <<"V", "R", "B">> THEN Some(ToInt(m.direction))
                        ELSE res.wind_direction,
                    !.wind_speed = Some(conv(ToInt(m.speed))),
                    !.wind_gust =
                        IF m.gust # <<>> THEN Some(conv(ToInt(m.gust)))
                        ELSE res.wind_gust]

\* The index of the first non-space character from position i on
\* (Len(t) + 1 when there is none).
RECURSIVE SkipSpaces(_, _)
SkipSpaces(t, i) ==
    IF i <= Len(t) /\ IsSpace(t[i]) THEN SkipSpaces(t, i + 1) ELSE i

\* \b(0000|[0-9]{4})\b(?=\s+(?:[A-Z+\-]|FEW|SCT|BKN|OVC|SKC|CLR|NSC|M?\d{2}/|$))
\* matched at position i
VisAt(t, i) ==
    /\ Boundary(t, i)
    /\ DigitsAt(t, i, 4)
    /\ Boundary(t, i + 4)
    /\ i + 4 <= Len(t)
    /\ IsSpace(t[i + 4])
    /\ LET j == SkipSpaces(t, i + 4)
       IN  \/ j > Len(t)
           \/ t[j] \in Upper \cup {"+", "-"}
           \/ DigitsAt(t, j, 2) /\ LitAt(t, j + 2, <<"/">>)

VisMatch(t) ==
    IF \E i \in 1..Len(t) : VisAt(t, i)
    THEN LET i == CHOOSE i \in 1..Len(t) :
                    VisAt(t, i) /\ \A j \in 1..(i - 1) : ~VisAt(t, j)
         IN  Some(SubSeq(t, i, i + 3))
    ELSE None

\* Variant of VisibilityDescription: "poor" starts at 1500.
VisibilityDescription_poorFrom1500(vis_val) ==
    IF vis_val = 9999 THEN "10 km or more"
    ELSE IF vis_val >= 5000 THEN "good"
    ELSE IF vis_val >= 3000 THEN "moderate"
    ELSE IF vis_val >= 1500 THEN "poor"
    ELSE "very poor"

\* The if / elif chain on vis_val.
VisibilityDescription(vis_val) ==
    IF vis_val = 9999 THEN "10 km or more"
    ELSE IF vis_val >= 5000 THEN "good"
    ELSE IF vis_val >= 3000 THEN "moderate"
    ELSE IF vis_val >= 1000 THEN "poor"
    ELSE "very poor"

CavokDescription == "CAVOK - fine weather"

\* Variant of ExtractVisibilityFrom: the search for 9999 is made with CAVOK
\* too.
ExtractVisibilityFrom_9999Always(res, t) ==
    LET cavok == Search(t, <<"C", "A", "V", "O", "K">>, TRUE)
        r0 == [res EXCEPT !.cavok = cavok]
        vis_match == VisMatch(t)
        vis_val == ToInt(vis_match[1])
        r1 == IF ~cavok /\ vis_match # None /\ vis_val # 1010 /\ vis_val # 1013
              THEN [r0 EXCEPT
                      !.visibility = Some(vis_val),
                      !.visibility_description = Some(VisibilityDescription(vis_val))]
              ELSE r0
        r2 == IF Search(t, <<"9", "9", "9", "9">>, TRUE)
              THEN [r1 EXCEPT
                      !.visibility = Some(9999),
                      !.visibility_description = Some("10 km or more")]
              ELSE r1
    IN  IF cavok
        THEN [r2 EXCEPT !.visibility_description = Some(CavokDescription)]
        ELSE r2

\* The visibility pass.
ExtractVisibilityFrom(res, t) ==
    LET cavok == Search(t, <<"C", "A", "V", "O", "K">>, TRUE)
        r0 == [res EXCEPT !.cavok = cavok]
    IN  IF ~cavok
        THEN LET vis_match == VisMatch(t)
                 vis_val == ToInt(vis_match[1])
                 r1 == IF vis_match # None /\ vis_val # 1010 /\ vis_val # 1013
                       THEN [r0 EXCEPT
                               !.visibility = Some(vis_val),
                               !.visibility_description =
                                   Some(VisibilityDescription(vis_val))]
                       ELSE r0
             IN  IF Search(t, <<"9", "9", "9", "9">>, TRUE)
                 THEN [r1 EXCEPT
                         !.visibility = Some(9999),
                         !.visibility_description = Some("10 km or more")]
                 ELSE r1
        ELSE [r0 EXCEPT !.visibility_description = Some(CavokDescription)]

ClearSkyTokens == {<<"S", "K", "C">>, <<"C", "L", "R">>, <<"N", "S", "C">>, <<"N", "C", "D">>}

CloudAmounts == <<<<"F", "E", "W">>, <<"S", "C", "T">>, <<"B", "K", "N">>, <<"O", "V", "C">>>>

\* (CB|TCU)? in the order tried; the empty tuple is the absent group.
CloudSuffixes == <<<<"C", "B">>, <<"T", "C", "U">>, <<>>>>

amount_desc(amt) ==
    CASE amt = <<"F", "E", "W">> -> "few (1-2/8)"
      [] amt = <<"S", "C", "T">> -> "scattered (3-4/8)"
      [] amt = <<"B", "K", "N">> -> "broken (5-7/8)"
      [] amt = <<"O", "V", "C">> -> "overcast (8/8)"

\* \b(FEW|SCT|BKN|OVC)(\d{3})(CB|TCU)?\b matched at position i with the
\* given amount and suffix
CloudShapeAt(t, i, amt, cb) ==
    /\ Boundary(t, i)
    /\ LitAt(t, i, amt)
    /\ DigitsAt(t, i + 3, 3)
    /\ LitAt(t, i + 6, cb)
    /\ Boundary(t, i + 6 + Len(cb))

CloudAt(t, i) ==
    \E a \in 1..Len(CloudAmounts), c \in 1..Len(CloudSuffixes) :
        CloudShapeAt(t, i, CloudAmounts[a], CloudSuffixes[c])

\* round(ft * 0.3048) for ft = 100 * h: never half-way between two integers.
FeetToMetres(ft) == (ft * 3048 + 5000) \div 10000

\* The dictionary built for one match of the cloud pattern.
CloudInfo(amt, h, cb) ==
    LET ft == ToInt(h) * 100
        base == [amount |-> amt,
                 height_m |-> FeetToMetres(ft),
                 height_ft |-> ft,
                 description |-> amount_desc(amt)]
    IN  IF cb = <<"C", "B">> THEN base @@ [type |-> "cumulonimbus"]
        ELSE IF cb = <<"T", "C", "U">> THEN base @@ [type |-> "towering cumulus"]
        ELSE base

\* re.findall of the cloud pattern from position i on: the matches from
\* left to right, no two overlapping.
RECURSIVE CloudMatchesFrom(_, _)
CloudMatchesFrom(t, i) ==
    IF i > Len(t) THEN <<>>
    ELSE IF CloudAt(t, i)
    THEN LET amt == SubSeq(t, i, i + 2)
             h == SubSeq(t, i + 3, i + 5)
             cb == CloudSuffixes[CHOOSE c \in 1..Len(CloudSuffixes) :
                     /\ CloudShapeAt(t, i, amt, CloudSuffixes[c])
                     /\ \A d \in 1..(c - 1) : ~CloudShapeAt(t, i, amt, CloudSuffixes[d])]
         IN  <<CloudInfo(amt, h, cb)>> \o CloudMatchesFrom(t, i + 6 + Len(cb))
    ELSE CloudMatchesFrom(t, i + 1)

ClearSkyLayer == [amount |-> <<"S", "K", "C">>, height_m |-> 0, description |-> "sky clear"]

\* Variant of ExtractCloudsFrom: the coded layers are appended after the
\* clear-sky layer too.
ExtractCloudsFrom_both(res, t) ==
    LET r1 == IF \E c \in ClearSkyTokens : Search(t, c, TRUE)
              THEN [res EXCEPT !.clouds = Append(res.clouds, ClearSkyLayer)]
              ELSE res
    IN  [r1 EXCEPT !.clouds = r1.clouds \o CloudMatchesFrom(t, 1)]

\* The cloud pass: the clear-sky layer, or else the coded layers.
ExtractCloudsFrom(res, t) ==
    IF \E c \in ClearSkyTokens : Search(t, c, TRUE)
    THEN [res EXCEPT !.clouds = Append(res.clouds, ClearSkyLayer)]
    ELSE [res EXCEPT !.clouds = res.clouds \o CloudMatchesFrom(t, 1)]

\* WEATHER_PATTERNS in the order of the dictionary.  bounded tells the
\* patterns written \bXX\b from the ones that start with an escaped sign.
WEATHER_PATTERNS == <<
    [lit |-> <<"+", "T", "S", "R", "A">>, bounded |-> FALSE, desc |-> "strong thunderstorm with rain",
     israin |-> TRUE, rainlevel |-> Some("heavy")],
    [lit |-> <<"-", "T", "S", "R", "A">>, bounded |-> FALSE, desc |-> "weak thunderstorm with rain",
     israin |-> TRUE, rainlevel |-> Some("light")],
    [lit |-> <<"T", "S", "R", "A">>, bounded |-> TRUE, desc |-> "thunderstorm with rain",
     israin |-> TRUE, rainlevel |-> Some("moderate")],
    [lit |-> <<"+", "S", "H", "R", "A">>, bounded |-> FALSE, desc |-> "strong shower",
     israin |-> TRUE, rainlevel |-> Some("heavy")],
    [lit |-> <<"-", "S", "H", "R", "A">>, bounded |-> FALSE, desc |-> "weak shower",
     israin |-> TRUE, rainlevel |-> Some("light")],
    [lit |-> <<"S", "H", "R", "A">>, bounded |-> TRUE, desc |-> "shower",
     israin |-> TRUE, rainlevel |-> Some("moderate")],
    [lit |-> <<"+", "R", "A">>, bounded |-> FALSE, desc |-> "heavy rain",
     israin |-> TRUE, rainlevel |-> Some("heavy")],
    [lit |-> <<"-", "R", "A">>, bounded |-> FALSE, desc |-> "light rain",
     israin |-> TRUE, rainlevel |-> Some("light")],
    [lit |-> <<"R", "A">>, bounded |-> TRUE, desc |-> "moderate rain",
     israin |-> TRUE, rainlevel |-> Some("moderate")],
    [lit |-> <<"+", "D", "Z">>, bounded |-> FALSE, desc |-> "strong drizzle",
     israin |-> TRUE, rainlevel |-> Some("light")],
    [lit |-> <<"-", "D", "Z">>, bounded |-> FALSE, desc |-> "weak drizzle",
     israin |-> TRUE, rainlevel |-> Some("light")],
    [lit |-> <<"D", "Z">>, bounded |-> TRUE, desc |-> "drizzle",
     israin |-> TRUE, rainlevel |-> Some("light")],
    [lit |-> <<"+", "T", "S">>, bounded |-> FALSE, desc |-> "strong thunderstorm",
     israin |-> FALSE, rainlevel |-> None],
    [lit |-> <<"-", "T", "S">>, bounded |-> FALSE, desc |-> "weak thunderstorm",
     israin |-> FALSE, rainlevel |-> None],
    [lit |-> <<"T", "S">>, bounded |-> TRUE, desc |-> "thunderstorm",
     israin |-> FALSE, rainlevel |-> None],
    [lit |-> <<"F", "G">>, bounded |-> TRUE, desc |-> "fog",
     israin |-> FALSE, rainlevel |-> None],
    [lit |-> <<"B", "R">>, bounded |-> TRUE, desc |-> "mist",
     israin |-> FALSE, rainlevel |-> None],
    [lit |-> <<"H", "Z">>, bounded |-> TRUE, desc |-> "haze",
     israin |-> FALSE, rainlevel |-> None],
    [lit |-> <<"M", "I", "F", "G">>, bounded |-> TRUE, desc |-> "shallow fog",
     israin |-> FALSE, rainlevel |-> None],
    [lit |-> <<"B", "C", "F", "G">>, bounded |-> TRUE, desc |-> "fog patches",
     israin |-> FALSE, rainlevel |-> None],
    [lit |-> <<"P", "R", "F", "G">>, bounded |-> TRUE, desc |-> "partial fog",
     israin |-> FALSE, rainlevel |-> None],
    [lit |-> <<"S", "Q">>, bounded |-> TRUE, desc |-> "squall",
     israin |-> FALSE, rainlevel |-> None],
    [lit |-> <<"F", "C">>, bounded |-> TRUE, desc |-> "funnel cloud",
     israin |-> FALSE, rainlevel |-> None],
    [lit |-> <<"S", "S">>, bounded |-> TRUE, desc |-> "sandstorm",
     israin |-> FALSE, rainlevel |-> None],
    [lit |-> <<"D", "S">>, bounded |-> TRUE, desc |-> "duststorm",
     israin |-> FALSE, rainlevel |-> None],
    [lit |-> <<"V", "A">>, bounded |-> TRUE, desc |-> "volcanic ash",
     israin |-> FALSE, rainlevel |-> None]>>

\* Variant of ReplacesRainType: only an unset rain_type is replaced.
ReplacesRainType_unsetOnly(cur, rainlevel) == cur = None

\* The condition under which a matching rain rule replaces rain_type.
ReplacesRainType(cur, rainlevel) ==
    cur = None \/ (rainlevel = Some("heavy") /\ cur # Some("heavy"))

\* Variant of ApplyRule: is_raining is set by the heavy rules only.
ApplyRule_rainingOnlyHeavy(res, t, r) ==
    IF Search(t, r.lit, r.bounded)
    THEN LET r1 == IF \A k \in 1..Len(res.weather) : res.weather[k] # r.desc
                   THEN [res EXCEPT !.weather = Append(res.weather, r.desc)]
                   ELSE res
         IN  IF r.israin
             THEN [r1 EXCEPT
                     !.is_raining = res.is_raining \/ r.rainlevel = Some("heavy"),
                     !.rain_type = IF ReplacesRainType(r1.rain_type, r.rainlevel)
                                   THEN r.rainlevel ELSE r1.rain_type]
             ELSE r1
    ELSE res

\* The body of the loop over WEATHER_PATTERNS for one rule r.
ApplyRule(res, t, r) ==
    IF Search(t, r.lit, r.bounded)
    THEN LET r1 == IF \A k \in 1..Len(res.weather) : res.weather[k] # r.desc
                   THEN [res EXCEPT !.weather = Append(res.weather, r.desc)]
                   ELSE res
         IN  IF r.israin
             THEN [r1 EXCEPT
                     !.is_raining = TRUE,
                     !.rain_type = IF ReplacesRainType(r1.rain_type, r.rainlevel)
                                   THEN r.rainlevel ELSE r1.rain_type]
             ELSE r1
    ELSE res

\* NSW and NOSIG are appended to the weather list.
AppendMarkers(res, t) ==
    LET r1 == IF Search(t, <<"N", "S", "W">>, TRUE)
              THEN [res EXCEPT !.weather = Append(res.weather, "no significant weather")]
              ELSE res
    IN  IF Search(t, <<"N", "O", "S", "I", "G">>, TRUE)
        THEN [r1 EXCEPT !.weather = Append(r1.weather, "no significant change")]
        ELSE r1

RECURSIVE ApplyRulesFrom(_, _, _)
ApplyRulesFrom(res, t, k) ==
    IF k > Len(WEATHER_PATTERNS) THEN res
    ELSE ApplyRulesFrom(ApplyRule(res, t, WEATHER_PATTERNS[k]), t, k + 1)

\* parse_metar as one call.
parse_metar(raw_text) ==
    LET t == Preprocess(raw_text)
        r1 == ExtractWindFrom(InitialResult(t), t)
        r2 == ExtractVisibilityFrom(r1, t)
        r3 == ExtractCloudsFrom(r2, t)
        r4 == ApplyRulesFrom(r3, t, 1)
    IN  AppendMarkers(r4, t)

----------------------------------------------------------------------------
(* rain_analysis_V3.py *)

\* Variant of RAIN_LEVEL_MAP: thunderShower scores 2.5, below heavy.
RAIN_LEVEL_MAP_thunderBelowHeavy ==
    [stopped |-> 0, drizzle |-> 1, light |-> 2, moderate |-> 4,
     heavy |-> 6, torrential |-> 8, thunderShower |-> 5]

\* RAIN_LEVEL_MAP, every value doubled so that 0.5 and 3.5 are integers.
RAIN_LEVEL_MAP ==
    [stopped |-> 0, drizzle |-> 1, light |-> 2, moderate |-> 4,
     heavy |-> 6, torrential |-> 8, thunderShower |-> 7]

KnownCategories == DOMAIN RAIN_LEVEL_MAP

\* A category that is not a key of RAIN_LEVEL_MAP.
UnknownCategory == "hail"

InputCategories == KnownCategories \cup {UnknownCategory}

\* The categories of the rows analyze_rain_events is run on.
RainCategories == {"stopped", "light", "heavy", UnknownCategory}

\* Timestamps, in seconds since 00:00 of the first day: 10:00, 10:20, ...
\* (the application records whole minutes).
Times == {36000 + t * 1200 : t \in 0..MaxTime}

Samples == [time : Times, rain : InputCategories]

RainSamples == [time : Times, rain : RainCategories]

InputColumns == {"time", "rain", "code", "note"}

\* How a call ends: it returns a value or raises an exception.
Pending == [status |-> "pending", value |-> <<>>]

Return(v) == [status |-> "returned", value |-> v]

Raise(e) == [status |-> "raised", value |-> e]

\* The exception raised by RAIN_LEVEL_MAP[r] for a missing key.
KeyError == Raise("KeyError")

\* strengths.index(max(strengths)): the first index holding the maximum.
IndexOfMax(strengths) ==
    CHOOSE k \in 1..Len(strengths) :
        /\ \A j \in 1..Len(strengths) : strengths[j] <= strengths[k]
        /\ \A j \in 1..(k - 1) : strengths[j] # strengths[k]

\* strftime('%Y-%m-%d %H:%M'): the day and the clock time, seconds dropped.
StrfDateHourMinute(t) ==
    [date |-> t \div 86400, hour |-> (t % 86400) \div 3600, minute |-> (t % 3600) \div 60]

\* strftime('%H:%M'): the clock time alone.
StrfHourMinute(t) ==
    [hour |-> (t % 86400) \div 3600, minute |-> (t % 3600) \div 60]

\* Variant of DurationMinutes: the seconds are not divided by 60.
DurationMinutes_seconds(start, end) == end - start

\* int((end - start).total_seconds() / 60): truncated towards zero.
DurationMinutes(start, end) ==
    IF end >= start THEN (end - start) \div 60 ELSE 0 - ((start - end) \div 60)

\* format_event(records): the report fields, or KeyError when a category is
\* not a key of RAIN_LEVEL_MAP.
format_event(records) ==
    LET times == [k \in 1..Len(records) |-> records[k].time]
        rains == [k \in 1..Len(records) |-> records[k].rain]
    IN  IF \E k \in 1..Len(rains) : rains[k] \notin DOMAIN RAIN_LEVEL_MAP
        THEN KeyError
        ELSE LET strengths == [k \in 1..Len(rains) |-> RAIN_LEVEL_MAP[rains[k]]]
                 start == times[1]
                 end == times[Len(times)]
             IN  Return([records |-> records,
                         start |-> StrfDateHourMinute(start),
                         end |-> StrfHourMinute(end),
                         duration |-> DurationMinutes(start, end),
                         process |-> rains,
                         max_rain |-> rains[IndexOfMax(strengths)]])

\* Variant of LoopBody: a "stopped" row closes the buffer before it is
\* appended, so it opens the next buffer.
LoopBody_stopOpensNext(cur, evs, row) ==
    IF row.rain # "stopped"
    THEN [current |-> Append(cur, row), events |-> evs]
    ELSE [current |-> <<row>>, events |-> Append(evs, cur)]

\* Variant of LoopBody: a "stopped" row closes the buffer without being
\* appended to it.
LoopBody_stopNotAppended(cur, evs, row) ==
    IF row.rain # "stopped"
    THEN [current |-> Append(cur, row), events |-> evs]
    ELSE [current |-> <<>>, events |-> Append(evs, cur)]

\* The body of the for loop: every row is appended to the buffer, a
\* "stopped" row also closes the buffer.
LoopBody(cur, evs, row) ==
    IF row.rain # "stopped"
    THEN [current |-> Append(cur, row), events |-> evs]
    ELSE [current |-> <<>>, events |-> Append(evs, Append(cur, row))]

\* Variant of FlushOpen: the open buffer is dropped.
FlushOpen_dropped(cur, evs) == evs

\* "if current: events.append(current)"
FlushOpen(cur, evs) == IF cur # <<>> THEN Append(evs, cur) ELSE evs

\* Variant of FormatAll: events that raise are skipped.
FormatAll_skipErrors(evs) ==
    LET formatted == [k \in 1..Len(evs) |-> format_event(evs[k])]
        kept == SelectSeq(formatted, LAMBDA f : f # KeyError)
    IN  Return([k \in 1..Len(kept) |-> kept[k].value])

\* [format_event(ev) for ev in events]: the first KeyError propagates.
FormatAll(evs) ==
    LET formatted == [k \in 1..Len(evs) |-> format_event(evs[k])]
    IN  IF \E k \in 1..Len(evs) : formatted[k] = KeyError
        THEN KeyError
        ELSE Return([k \in 1..Len(evs) |-> formatted[k].value])

\* The orders sort_values may produce: ascending by time; the default
\* quicksort is not stable, so rows with equal times come in any order.
IsAscending(s) == \A k \in 1..(Len(s) - 1) : s[k].time <= s[k + 1].time

\* Variant of SortedOrders: the rows keep the order they are given in.
SortedOrders_unsorted(d) == {d}

\* df.sort_values("time"): the ascending orders of the rows of d.
SortedOrders(d) ==
    {s \in {[k \in 1..Len(d) |-> d[p[k]]] : p \in Perms(Len(d))} : IsAscending(s)}

RainIdle ==
    /\ df = <<>>
    /\ df_columns = InputColumns
    /\ rows = <<>>
    /\ rpc = "idle"
    /\ ri = 1
    /\ current = <<>>
    /\ events = <<>>
    /\ rain_result = Pending

FormatIdle ==
    /\ fe_records = <<>>
    /\ fe_result = Pending
    /\ fpc = "idle"

MetarIdle ==
    /\ text_in = <<>>
    /\ text = <<>>
    /\ result = InitialResult(<<>>)
    /\ mpc = "idle"
    /\ rule = 1

BatchIdle ==
    /\ raw_block = <<>>
    /\ parts = <<>>
    /\ bi = 1
    /\ count = 0
    /\ reports = <<>>
    /\ inserted = <<>>
    /\ message = "none"
    /\ bpc = "idle"

RainInit ==
    /\ \E n \in 0..MaxSamples : df \in [1..n -> RainSamples]
    /\ df_columns = InputColumns
    /\ rows = <<>>
    /\ rpc = "map"
    /\ ri = 1
    /\ current = <<>>
    /\ events = <<>>
    /\ rain_result = Pending
    /\ FormatIdle
    /\ MetarIdle
    /\ BatchIdle

\* df["strength"] = df["rain"].map(RAIN_LEVEL_MAP): adds a column to the
\* caller's frame (unknown categories map to NaN, nothing is raised).
MapStrength ==
    /\ rpc = "map"
    /\ df_columns' = df_columns \cup {"strength"}
    /\ rpc' = "sort"
    /\ UNCHANGED <<df, rows, ri, current, events, rain_result, formatVars, metarVars, batchVars>>

\* df = df.sort_values("time"): a new local frame.
SortValues ==
    /\ rpc = "sort"
    /\ \E s \in SortedOrders(df) : rows' = s
    /\ rpc' = "loop"
    /\ UNCHANGED <<df, df_columns, ri, current, events, rain_result, formatVars, metarVars, batchVars>>

\* One iteration of "for _, row in df.iterrows()".
LoopRow ==
    /\ rpc = "loop"
    /\ ri <= Len(rows)
    /\ LET r == LoopBody(current, events, rows[ri])
       IN  /\ current' = r.current
           /\ events' = r.events
    /\ ri' = ri + 1
    /\ UNCHANGED <<df, df_columns, rows, rpc, rain_result, formatVars, metarVars, batchVars>>

\* The loop is exhausted: the open buffer counts as an event too.
LoopEnd ==
    /\ rpc = "loop"
    /\ ri > Len(rows)
    /\ events' = FlushOpen(current, events)
    /\ rpc' = "format"
    /\ UNCHANGED <<df, df_columns, rows, ri, current, rain_result, formatVars, metarVars, batchVars>>

\* return [format_event(ev) for ev in events]
ReturnFormatted ==
    /\ rpc = "format"
    /\ rain_result' = FormatAll(events)
    /\ rpc' = "done"
    /\ UNCHANGED <<df, df_columns, rows, ri, current, events, formatVars, metarVars, batchVars>>

RainNext == MapStrength \/ SortValues \/ LoopRow \/ LoopEnd \/ ReturnFormatted

SpecRain == RainInit /\ [][RainNext]_vars

----------------------------------------------------------------------------
(* format_event applied to one event of its own *)

FormatInit ==
    /\ RainIdle
    /\ MetarIdle
    /\ BatchIdle
    /\ \E n \in 1..MaxRecords : fe_records \in [1..n -> Samples]
    /\ fe_result = Pending
    /\ fpc = "call"

CallFormatEvent ==
    /\ fpc = "call"
    /\ fe_result' = format_event(fe_records)
    /\ fpc' = "done"
    /\ UNCHANGED <<fe_records, rainVars, metarVars, batchVars>>

FormatNext == CallFormatEvent

SpecFormat == FormatInit /\ [][FormatNext]_vars

----------------------------------------------------------------------------
(* Properties of analyze_rain_events and format_event *)

StoppedOnlyLast(ev) ==
    \A k \in 1..Len(ev) : ev[k].rain = "stopped" => k = Len(ev)

\* C2: a "stopped" sample is a member of an emitted event only as its last
\* member (so no event has a member after it, nor two of them), in the
\* events emitted so far and in the returned ones; and right after a
\* "stopped" row is processed the open buffer is empty.
C2_StoppedIsTerminal ==
    /\ \A e \in 1..Len(events) : StoppedOnlyLast(events[e])
    /\ (rpc = "done" /\ rain_result # KeyError) =>
            \A e \in 1..Len(rain_result.value) : StoppedOnlyLast(rain_result.value[e].records)
    /\ (rpc = "loop" /\ ri > 1 /\ rows[ri - 1].rain = "stopped") => current = <<>>

\* A run that emitted an event of two members closed by "stopped" and a
\* later event.
C2_Witness ==
    /\ rpc = "done"
    /\ rain_result # KeyError
    /\ Len(rain_result.value) = 2
    /\ Len(rain_result.value[1].records) = 2
    /\ rain_result.value[1].records[2].rain = "stopped"
    /\ rain_result.value[2].records[1].rain # "stopped"

StoppedCount(s) == Cardinality({k \in 1..Len(s) : s[k].rain = "stopped"})

LastStopped(s) ==
    IF \E k \in 1..Len(s) : s[k].rain = "stopped"
    THEN CHOOSE k \in 1..Len(s) :
            /\ s[k].rain = "stopped"
            /\ \A j \in (k + 1)..Len(s) : s[j].rain # "stopped"
    ELSE 0

EndsOpen(s) == s # <<>> /\ s[Len(s)].rain # "stopped"

\* C3: once the loop and the trailing flush are over, the number of events
\* is the number of "stopped" rows, plus one when the last row of the sorted
\* frame is not "stopped"; in that case the last event is exactly the rows
\* after the last "stopped" row.  The same count is returned when no
\* category is unknown.
C3_OpenEndedEvent ==
    rpc \in {"format", "done"} =>
        /\ Len(events) = StoppedCount(rows) + (IF EndsOpen(rows) THEN 1 ELSE 0)
        /\ EndsOpen(rows) =>
                events[Len(events)] = SubSeq(rows, LastStopped(rows) + 1, Len(rows))
        /\ (rpc = "done" /\ rain_result # KeyError) =>
                /\ Len(rain_result.value) = Len(events)
                /\ \A e \in 1..Len(events) : rain_result.value[e].records = events[e]

\* A run with a "stopped" row in the middle and an open end: two events,
\* the second one open-ended.
C3_Witness ==
    /\ rpc = "done"
    /\ rain_result # KeyError
    /\ Len(rows) = 3
    /\ rows[2].rain = "stopped"
    /\ rows[3].rain # "stopped"
    /\ Len(rain_result.value) = 2
    /\ rain_result.value[2].records = <<rows[3]>>

HasUnknownCategory(s) == \E k \in 1..Len(s) : s[k].rain \notin KnownCategories

IsClockOf(c, t) ==
    /\ c.hour \in 0..23
    /\ c.minute \in 0..59
    /\ (t - (c.hour * 3600 + c.minute * 60)) % 86400 < 60

\* C12: every returned event reports as start the day and clock time of its
\* first member, as end the clock time of its last member, as duration the
\* whole minutes of (end - start), never negative, and as intensity sequence
\* the categories of its members, which are in chronological order.
C12_EventReport ==
    (rpc = "done" /\ rain_result # KeyError) =>
        \A e \in 1..Len(rain_result.value) :
            LET r == rain_result.value[e]
                ev == r.records
                first == ev[1].time
                last == ev[Len(ev)].time
            IN  /\ ev = events[e]
                /\ IsClockOf(r.start, first)
                /\ r.start.date * 86400 <= first
                /\ first < (r.start.date + 1) * 86400
                /\ IsClockOf(r.end, last)
                /\ r.duration >= 0
                /\ 60 * r.duration <= last - first
                /\ last - first < 60 * (r.duration + 1)
                /\ Len(r.process) = Len(ev)
                /\ \A k \in 1..Len(ev) : r.process[k] = ev[k].rain
                /\ \A k \in 1..(Len(ev) - 1) : ev[k].time <= ev[k + 1].time

\* The samples 10:00 light, 10:20 heavy, 10:40 stopped, given in another
\* order, returned as one event 10:00 - 10:40 of 40 minutes, peak heavy.
C12_Witness ==
    /\ rpc = "done"
    /\ df = <<[time |-> 38400, rain |-> "stopped"],
              [time |-> 36000, rain |-> "light"],
              [time |-> 37200, rain |-> "heavy"]>>
    /\ rain_result # KeyError
    /\ Len(rain_result.value) = 1
    /\ rain_result.value[1].start = [date |-> 0, hour |-> 10, minute |-> 0]
    /\ rain_result.value[1].end = [hour |-> 10, minute |-> 40]
    /\ rain_result.value[1].duration = 40
    /\ rain_result.value[1].process = <<"light", "heavy", "stopped">>
    /\ rain_result.value[1].max_rain = "heavy"

DistinctTimes(s) ==
    \A a, b \in 1..Len(s) : a # b => s[a].time # s[b].time

\* The samples of the set S, one timestamp each, in ascending order.
AscendingOf(S) ==
    CHOOSE s \in [1..Cardinality(S) -> S] :
        \A k \in 1..(Cardinality(S) - 1) : s[k].time < s[k + 1].time

\* The sequence s cut after each "stopped" sample.
RECURSIVE CutAfterStopped(_)
CutAfterStopped(s) ==
    IF s = <<>> THEN <<>>
    ELSE LET k == IF \E j \in 1..Len(s) : s[j].rain = "stopped"
                  THEN CHOOSE j \in 1..Len(s) :
                          /\ s[j].rain = "stopped"
                          /\ \A i \in 1..(j - 1) : s[i].rain # "stopped"
                  ELSE Len(s)
         IN  <<SubSeq(s, 1, k)>> \o CutAfterStopped(SubSeq(s, k + 1, Len(s)))

\* The outcome for a set of samples with one timestamp each: it is a
\* function of the set, not of the order the samples are given in.
OutcomeOfSet(S) ==
    LET cut == CutAfterStopped(AscendingOf(S))
    IN  IF \E x \in S : x.rain \notin KnownCategories
        THEN KeyError
        ELSE Return([e \in 1..Len(cut) |-> format_event(cut[e]).value])

\* C13: when the timestamps of the input are pairwise distinct, the outcome
\* depends on the set of samples only: every order of the same samples gives
\* the events of the ascending order, same members, same reports.
C13_OrderInsensitive ==
    (rpc = "done" /\ DistinctTimes(df)) =>
        rain_result = OutcomeOfSet({df[k] : k \in 1..Len(df)})

\* Three samples given in descending order of time, returned as the two
\* events of the ascending order.
C13_Witness ==
    /\ rpc = "done"
    /\ Len(df) = 3
    /\ df[1].time > df[2].time
    /\ df[2].time > df[3].time
    /\ rain_result # KeyError
    /\ Len(rain_result.value) = 2
    /\ rain_result.value[1].records = <<df[3], df[2]>>
    /\ rain_result.value[2].records = <<df[1]>>

\* C14: a call leaves the caller's collection as it was; in particular it
\* has the same set of columns after the call as before.
C14_CallerFrameUnchanged ==
    rpc = "done" => df_columns = InputColumns

RECURSIVE Flatten(_)
Flatten(ss) == IF ss = <<>> THEN <<>> ELSE ss[1] \o Flatten(Tail(ss))

Occurrences(s, x) == Cardinality({k \in 1..Len(s) : s[k] = x})

\* C16: the events partition the input: their members, concatenated in
\* emission order, are the input samples in ascending order of time, each
\* sample as often as it is in the input; no event is empty; the same holds
\* of the returned events.
C16_EventsPartitionInput ==
    rpc \in {"format", "done"} =>
        /\ Flatten(events) = rows
        /\ Len(rows) = Len(df)
        /\ \A x \in RainSamples : Occurrences(rows, x) = Occurrences(df, x)
        /\ \A k \in 1..(Len(rows) - 1) : rows[k].time <= rows[k + 1].time
        /\ \A e \in 1..Len(events) : events[e] # <<>>
        /\ (rpc = "done" /\ rain_result # KeyError) =>
                Flatten([e \in 1..Len(rain_result.value) |->
                            rain_result.value[e].records]) = rows

\* Three samples of known categories given out of order, one of them twice,
\* returned as two events that hold all three.
C16_Witness ==
    /\ rpc = "done"
    /\ rain_result # KeyError
    /\ Len(df) = 3
    /\ df[1] = df[3]
    /\ df[2].time < df[1].time
    /\ df[2].rain = "stopped"
    /\ Len(rain_result.value) = 2
    /\ rain_result.value[1].records = <<df[2]>>
    /\ rain_result.value[2].records = <<df[1], df[3]>>

\* The scale of the specification, doubled: stopped=0 < drizzle=0.5 <
\* light=1 < moderate=2 < heavy=3 < thunderShower=3.5 < torrential=4.
ScaleOrder ==
    <<"stopped", "drizzle", "light", "moderate", "heavy", "thunderShower",
      "torrential">>

Rank(c) == CHOOSE k \in 1..Len(ScaleOrder) : ScaleOrder[k] = c

\* C5: the reported peak of an event is the category of the earliest member
\* of maximal score: some member carries it, no member ranks strictly
\* higher on the scale and no earlier member ranks equal.
C5_PeakIsFirstMaximum ==
    (fpc = "done" /\ fe_result # KeyError) =>
        \E k \in 1..Len(fe_records) :
            /\ fe_result.value.max_rain = fe_records[k].rain
            /\ \A j \in 1..Len(fe_records) :
                    Rank(fe_records[j].rain) <= Rank(fe_records[k].rain)
            /\ \A j \in 1..(k - 1) :
                    Rank(fe_records[j].rain) < Rank(fe_records[k].rain)

\* An event whose peak is thunderShower, above an earlier heavy and before
\* a later thunderShower.
C5_Witness ==
    /\ fpc = "done"
    /\ Len(fe_records) = 3
    /\ fe_records[1].rain = "heavy"
    /\ fe_records[2].rain = "thunderShower"
    /\ fe_records[3].rain = "thunderShower"
    /\ fe_result # KeyError
    /\ fe_result.value.max_rain = "thunderShower"

----------------------------------------------------------------------------
(* The report texts parse_metar is run on: up to MaxTokens tokens of one   *)
(* family, joined by single spaces.  An empty token gives leading,         *)
(* trailing or repeated spaces.                                             *)

VisibilityTokens ==
    {<<"C", "A", "V", "O", "K">>,
     <<"9", "9", "9", "9">>,
     <<"3", "0", "0", "0">>,
     <<"0", "8", "0", "0">>,
     <<"1", "0", "1", "3">>,
     <<"R", "A">>}

WeatherTokens ==
    {<<"+", "T", "S", "R", "A">>,
     <<"-", "T", "S", "R", "A">>,
     <<"+", "S", "H", "R", "A">>,
     <<"-", "S", "H", "R", "A">>,
     <<"+", "R", "A">>,
     <<"-", "R", "A">>,
     <<"R", "A">>,
     <<"D", "Z">>,
     <<"T", "S">>}

CloudTokens ==
    {<<"S", "K", "C">>,
     <<"N", "S", "C">>,
     <<"F", "E", "W", "0", "2", "0">>,
     <<"B", "K", "N", "0", "1", "5", "C", "B">>,
     <<"O", "V", "C", "1", "0", "0">>,
     <<"S", "C", "T", "0", "3", "0", "T", "C", "U">>}

WindTokens ==
    {<<"1", "0", "0", "1", "2", "M", "P", "S">>,
     <<"1", "0", "0", "1", "2", "K", "M", "H">>,
     <<"2", "7", "0", "1", "5", "G", "2", "5", "K", "T">>,
     <<"V", "R", "B", "0", "3", "K", "T">>,
     <<"0", "9", "0", "0", "7", "G", "1", "2", "5", "M", "P", "S">>,
     <<"1", "0", "0", "1", "2", "3", "K", "T">>}

LayoutTokens ==
    {<<"M", "E", "T", "A", "R">>,
     <<>>,
     <<"=">>,
     <<"\n">>,
     <<"9", "9", "9", "9", "=">>,
     <<"N", "O", "S", "I", "G">>}

TokenFamilies ==
    {VisibilityTokens, WeatherTokens, CloudTokens, WindTokens, LayoutTokens}

MetarInit ==
    /\ RainIdle
    /\ FormatIdle
    /\ BatchIdle
    /\ \E family \in TokenFamilies : \E n \in 0..MaxTokens :
            \E tokens \in [1..n -> family] : text_in = Join(tokens, <<" ">>)
    /\ text = text_in
    /\ result = InitialResult(<<>>)
    /\ mpc = "preprocess"
    /\ rule = 1

\* The preprocessing and the creation of the result dictionary.
PreprocessText ==
    /\ mpc = "preprocess"
    /\ text' = Preprocess(text)
    /\ result' = InitialResult(Preprocess(text))
    /\ mpc' = "wind"
    /\ UNCHANGED <<text_in, rule, rainVars, formatVars, batchVars>>

ExtractWind ==
    /\ mpc = "wind"
    /\ result' = ExtractWindFrom(result, text)
    /\ mpc' = "visibility"
    /\ UNCHANGED <<text_in, text, rule, rainVars, formatVars, batchVars>>

ExtractVisibility ==
    /\ mpc = "visibility"
    /\ result' = ExtractVisibilityFrom(result, text)
    /\ mpc' = "clouds"
    /\ UNCHANGED <<text_in, text, rule, rainVars, formatVars, batchVars>>

ExtractClouds ==
    /\ mpc = "clouds"
    /\ result' = ExtractCloudsFrom(result, text)
    /\ mpc' = "weather"
    /\ UNCHANGED <<text_in, text, rule, rainVars, formatVars, batchVars>>

\* One iteration of the loop over WEATHER_PATTERNS.
EvaluateRule ==
    /\ mpc = "weather"
    /\ rule <= Len(WEATHER_PATTERNS)
    /\ result' = ApplyRule(result, text, WEATHER_PATTERNS[rule])
    /\ rule' = rule + 1
    /\ UNCHANGED <<text_in, text, mpc, rainVars, formatVars, batchVars>>

\* The special cases after the loop, and the return.
ReturnResult ==
    /\ mpc = "weather"
    /\ rule > Len(WEATHER_PATTERNS)
    /\ result' = AppendMarkers(result, text)
    /\ mpc' = "done"
    /\ UNCHANGED <<text_in, text, rule, rainVars, formatVars, batchVars>>

MetarNext ==
    \/ PreprocessText
    \/ ExtractWind
    \/ ExtractVisibility
    \/ ExtractClouds
    \/ EvaluateRule
    \/ ReturnResult

SpecMetar == MetarInit /\ [][MetarNext]_vars

\* The four digits of v, as in a report.
FourDigits(v) ==
    <<Digits[(v \div 1000) + 1], Digits[((v \div 100) % 10) + 1],
      Digits[((v \div 10) % 10) + 1], Digits[(v % 10) + 1]>>

\* parse_metar run on the texts "dddd FG", for each of the 4-digit
\* visibility groups 0000..9999.
VisibilityInit ==
    /\ RainIdle
    /\ FormatIdle
    /\ BatchIdle
    /\ \E v \in 0..9999 : text_in = FourDigits(v) \o <<" ", "F", "G">>
    /\ text = text_in
    /\ result = InitialResult(<<>>)
    /\ mpc = "preprocess"
    /\ rule = 1

SpecVisibility == VisibilityInit /\ [][MetarNext]_vars

----------------------------------------------------------------------------
(* Properties of parse_metar *)

\* The whitespace-separated tokens of the argument.
InputTokens == Split(text_in)

HasToken(w) == \E k \in 1..Len(InputTokens) : InputTokens[k] = w

\* C1 as stated: with a CAVOK token in the text, the returned visibility is
\* 9999, the description is the CAVOK one and cavok is true.
C1_CavokVisibility9999 ==
    (mpc = "done" /\ HasToken(<<"C", "A", "V", "O", "K">>)) =>
        /\ result.visibility = Some(9999)
        /\ result.visibility_description = Some(CavokDescription)
        /\ result.cavok = TRUE

\* C1 amended: with a CAVOK token in the text, whatever 4-digit tokens the
\* text holds, the returned visibility is unset, the description is the
\* CAVOK one and cavok is true.
C1_CavokVisibilityUnset ==
    (mpc = "done" /\ HasToken(<<"C", "A", "V", "O", "K">>)) =>
        /\ result.visibility = None
        /\ result.visibility_description = Some(CavokDescription)
        /\ result.cavok = TRUE

\* A parsed text with CAVOK between the 4-digit tokens 3000 and 9999.
C1_Witness ==
    /\ mpc = "done"
    /\ HasToken(<<"C", "A", "V", "O", "K">>)
    /\ HasToken(<<"9", "9", "9", "9">>)
    /\ HasToken(<<"3", "0", "0", "0">>)
    /\ result.cavok = TRUE
    /\ result.visibility = None

\* The rain rules among the first k rules that match the text.
MatchingRainRules(k) ==
    {j \in 1..k : /\ WEATHER_PATTERNS[j].israin
                  /\ Search(text, WEATHER_PATTERNS[j].lit, WEATHER_PATTERNS[j].bounded)}

FirstOf(S) == CHOOSE j \in S : \A i \in S : j <= i

\* What C6 says rain_type is after the first k rules.
RainTypeAfter(k) ==
    LET M == MatchingRainRules(k)
    IN  IF M = {} THEN None
        ELSE IF \E j \in M : WEATHER_PATTERNS[j].rainlevel = Some("heavy")
             THEN Some("heavy")
             ELSE WEATHER_PATTERNS[FirstOf(M)].rainlevel

\* C6: after any number of rules, evaluated in table order, and in the
\* returned record, rain_type is heavy when a matching rain rule is heavy,
\* otherwise the severity of the first matching rain rule, otherwise unset;
\* so once it is heavy it stays heavy.
C6_RainTypePrecedence ==
    mpc \in {"weather", "done"} => result.rain_type = RainTypeAfter(rule - 1)

\* A returned record whose rain_type is heavy although the first matching
\* rain rule is not: a later heavy rule has overridden it.
C6_Witness ==
    /\ mpc = "done"
    /\ MatchingRainRules(Len(WEATHER_PATTERNS)) # {}
    /\ WEATHER_PATTERNS[FirstOf(MatchingRainRules(Len(WEATHER_PATTERNS)))].rainlevel
            = Some("light")
    /\ result.rain_type = Some("heavy")

HasClearSkyToken == \E c \in ClearSkyTokens : HasToken(c)

\* The layers of the coded cloud groups of the text, in textual order.
CodedLayers == CloudMatchesFrom(text, 1)

IsCodedLayer(c) == c.amount # ClearSkyLayer.amount

\* C7 as stated: with a clear-sky token and coded cloud groups in the text,
\* clouds holds the clear-sky layer and one layer per coded group, in
\* textual order.
C7_ClearSkyAndCodedLayers ==
    (mpc = "done" /\ HasClearSkyToken /\ CodedLayers # <<>>) =>
        /\ \E k \in 1..Len(result.clouds) : result.clouds[k] = ClearSkyLayer
        /\ SelectSeq(result.clouds, IsCodedLayer) = CodedLayers

\* C7 amended: with a clear-sky token and coded cloud groups in the text,
\* clouds holds the clear-sky layer alone; the coded groups are left out.
C7_ClearSkyLayerOnly ==
    (mpc = "done" /\ HasClearSkyToken /\ CodedLayers # <<>>) =>
        result.clouds = <<ClearSkyLayer>>

\* A parsed text with SKC and the coded groups FEW020 and BKN015CB.
C7_Witness ==
    /\ mpc = "done"
    /\ HasToken(<<"S", "K", "C">>)
    /\ HasToken(<<"F", "E", "W", "0", "2", "0">>)
    /\ HasToken(<<"B", "K", "N", "0", "1", "5", "C", "B">>)
    /\ Len(CodedLayers) >= 2
    /\ Len(result.clouds) = 1

\* The units C8 names.
ClaimedUnits == <<<<"K", "T">>, <<"M", "P", "S">>, <<"K", "M", "H">>>>

\* w is a wind token dddff[Ggg]U of the given shape and unit.
IsWindToken(w, shape, unit) ==
    /\ WindShapeAt(w, 1, shape, unit)
    /\ Len(w) = 3 + shape.speed + (IF shape.gust = 0 THEN 0 ELSE 1 + shape.gust)
                 + Len(unit)

WindTokenIndexes ==
    {k \in 1..Len(InputTokens) :
        \E a \in 1..Len(WindShapes), u \in 1..Len(ClaimedUnits) :
            IsWindToken(InputTokens[k], WindShapes[a], ClaimedUnits[u])}

\* The integer nearest to v * num / 1000.
Nearest(v, num) ==
    CHOOSE n \in 0..(2 * v + 1) :
        /\ 2 * (1000 * n - num * v) <= 1000
        /\ 2 * (num * v - 1000 * n) <= 1000

\* The value in knots C8 gives for v in the given unit.
ClaimedKnots(v, unit) ==
    IF unit = <<"K", "T">> THEN v
    ELSE IF unit = <<"M", "P", "S">> THEN Nearest(v, 1944)
    ELSE Nearest(v, 540)

\* The speed and gust C8 expects from the wind token w.
ExpectedWind(w, convertible) ==
    LET a == CHOOSE a \in 1..Len(WindShapes) :
                \E u \in 1..Len(ClaimedUnits) :
                    IsWindToken(w, WindShapes[a], ClaimedUnits[u])
        shape == WindShapes[a]
        unit == ClaimedUnits[CHOOSE u \in 1..Len(ClaimedUnits) :
                                IsWindToken(w, shape, ClaimedUnits[u])]
        speed == ToInt(SubSeq(w, 4, 3 + shape.speed))
        gust == ToInt(SubSeq(w, 5 + shape.speed, 4 + shape.speed + shape.gust))
    IN  IF unit \in convertible
        THEN [wind_speed |-> Some(ClaimedKnots(speed, unit)),
              wind_gust |-> IF shape.gust = 0 THEN None
                            ELSE Some(ClaimedKnots(gust, unit))]
        ELSE [wind_speed |-> None, wind_gust |-> None]

WindAsExpected(convertible) ==
    (mpc = "done" /\ Cardinality(WindTokenIndexes) = 1) =>
        LET w == InputTokens[CHOOSE k \in WindTokenIndexes : TRUE]
            e == ExpectedWind(w, convertible)
        IN  /\ result.wind_speed = e.wind_speed
            /\ result.wind_gust = e.wind_gust

\* C8 as stated: the one wind token of a text gives wind_speed and wind_gust
\* in knots, unchanged for KT, round(v*1.944) for MPS, round(v*0.54) for KMH.
C8_WindInKnotsAllUnits ==
    WindAsExpected({<<"K", "T">>, <<"M", "P", "S">>, <<"K", "M", "H">>})

\* C8 amended: the one wind token of a text gives wind_speed and wind_gust
\* in knots, unchanged for KT and round(v*1.944) for MPS (10012MPS gives
\* 23); a KMH token is not read as wind, wind_speed and wind_gust stay unset
\* (10012KMH gives no speed, not 6).
C8_WindInKnotsKtMps ==
    WindAsExpected({<<"K", "T">>, <<"M", "P", "S">>})

\* A parsed text whose wind token 09007G125MPS gave 14 kt gusting 243 kt.
C8_Witness ==
    /\ mpc = "done"
    /\ InputTokens = <<<<"0", "9", "0", "0", "7", "G", "1", "2", "5", "M", "P", "S">>>>
    /\ result.wind_speed = Some(14)
    /\ result.wind_gust = Some(243)

\* C9 as stated: raw is the argument, character for character.
C9_RawIsInput ==
    mpc # "preprocess" => result.raw = text_in

NotSpace(c) == ~IsSpace(c)

NotSpaceNorEquals(c) == ~IsSpace(c) /\ c # "="

\* t has no "=", no leading or trailing whitespace, and no whitespace but
\* single spaces.
IsNormalized(t) ==
    /\ \A k \in 1..Len(t) : t[k] \notin {"=", "\n", "\t"}
    /\ t # <<>> => (t[1] # " " /\ t[Len(t)] # " ")
    /\ \A k \in 1..(Len(t) - 1) : ~(t[k] = " " /\ t[k + 1] = " ")

\* C9 amended: raw is the argument with its "=" deleted and its whitespace
\* normalised: it has no "=" and no whitespace but spaces, the other
\* characters are those of the argument in the same order, and raw is the
\* argument itself exactly when the argument has no "=", no leading or
\* trailing whitespace and no whitespace but single spaces.
C9_RawIsNormalizedInput ==
    mpc # "preprocess" =>
        /\ \A k \in 1..Len(result.raw) : result.raw[k] \notin {"=", "\n", "\t"}
        /\ SelectSeq(result.raw, NotSpace) = SelectSeq(text_in, NotSpaceNorEquals)
        /\ (result.raw = text_in) <=> IsNormalized(text_in)

\* A parsed text with an "=" and a newline: raw is not the argument.
C9_Witness ==
    /\ mpc = "done"
    /\ text_in = <<"M", "E", "T", "A", "R", " ", "\n", " ", "9", "9", "9", "9", "=">>
    /\ result.raw = <<"M", "E", "T", "A", "R", " ", "9", "9", "9", "9">>

\* The severities of the rain rules of the table.
TableSeverities ==
    {WEATHER_PATTERNS[j].rainlevel : j \in {i \in 1..Len(WEATHER_PATTERNS) :
                                                WEATHER_PATTERNS[i].israin}}

\* C15: at every step of parse_metar and in the returned record, rain_type
\* is set only if is_raining is true; and when is_raining is true rain_type
\* is one of the severities of the rule table.
C15_RainTypeOnlyIfRaining ==
    /\ result.rain_type # None => result.is_raining
    /\ result.is_raining => result.rain_type \in TableSeverities

\* A returned record for a text whose only rain code is RA: raining,
\* moderate.
C15_Witness ==
    /\ mpc = "done"
    /\ HasToken(<<"R", "A">>)
    /\ result.is_raining
    /\ result.rain_type = Some("moderate")

\* The visibility group at the head of the argument, as a number.
VisibilityGroup == ToInt(SubSeq(text_in, 1, 4))

\* The buckets C11 names, from the highest threshold down.
ClaimedBucket(v) ==
    IF v = 9999 THEN "10 km or more"
    ELSE IF v >= 8000 THEN "very good"
    ELSE IF v >= 5000 THEN "good"
    ELSE IF v >= 3000 THEN "moderate"
    ELSE IF v >= 1500 THEN "poor"
    ELSE IF v >= 800 THEN "bad"
    ELSE "very poor"

\* C11 as stated: every 4-digit visibility group v, 1010 and 1013 included,
\* is extracted and described by one of seven buckets with the thresholds
\* 9999, 8000, 5000, 3000, 1500 and 800.
C11_SevenBuckets ==
    mpc = "done" =>
        /\ result.visibility = Some(VisibilityGroup)
        /\ result.visibility_description = Some(ClaimedBucket(VisibilityGroup))

\* The lower ends of the buckets of the code and their descriptions.
BucketTable ==
    <<[from |-> 9999, to |-> 9999, description |-> "10 km or more"],
      [from |-> 5000, to |-> 9998, description |-> "good"],
      [from |-> 3000, to |-> 4999, description |-> "moderate"],
      [from |-> 1000, to |-> 2999, description |-> "poor"],
      [from |-> 0, to |-> 999, description |-> "very poor"]>>

\* C11 amended: every 4-digit visibility group v other than 1010 and 1013
\* is extracted and described by one of five buckets: 9999 -> ">= 10 km",
\* v >= 5000 -> "good", v >= 3000 -> "moderate", v >= 1000 -> "poor",
\* otherwise "very poor"; 1010 and 1013 are taken for pressures and leave
\* visibility and its description unset.
C11_FiveBuckets ==
    mpc = "done" =>
        IF VisibilityGroup \in {1010, 1013}
        THEN /\ result.visibility = None
             /\ result.visibility_description = None
        ELSE /\ result.visibility = Some(VisibilityGroup)
             /\ \E b \in 1..Len(BucketTable) :
                    /\ BucketTable[b].from <= VisibilityGroup
                    /\ VisibilityGroup <= BucketTable[b].to
                    /\ result.visibility_description = Some(BucketTable[b].description)

\* The parsed text "1000 FG": the lowest value described as poor.
C11_Witness ==
    /\ mpc = "done"
    /\ text_in = <<"1", "0", "0", "0", " ", "F", "G">>
    /\ result.visibility = Some(1000)
    /\ result.visibility_description = Some("poor")

----------------------------------------------------------------------------
(* app_V3.py: the handler of the button of page_metar *)

\* The pieces a pasted block is made of.
BlockPieces ==
    {<<"R", "A">>,
     <<"9", "9", "9", "9">>,
     <<"=">>,
     <<"\n">>,
     <<" ">>}

RECURSIVE Concat(_)
Concat(pieces) == IF pieces = <<>> THEN <<>> ELSE pieces[1] \o Concat(Tail(pieces))

BatchInit ==
    /\ RainIdle
    /\ FormatIdle
    /\ MetarIdle
    /\ \E n \in 0..MaxPieces : \E pieces \in [1..n -> BlockPieces] :
            raw_block = Concat(pieces)
    /\ parts = <<>>
    /\ bi = 1
    /\ count = 0
    /\ reports = <<>>
    /\ inserted = <<>>
    /\ message = "none"
    /\ bpc = "click"

\* Variant of SplitParts: a newline ends a part too.
SplitParts_newlines(t) ==
    SplitOn([k \in 1..Len(t) |-> IF t[k] = "\n" THEN "=" ELSE t[k]], "=")

\* parts = text.split("=")
SplitParts(t) == SplitOn(t, "=")

\* one_line = " ".join(t.split())
OneLine(t) == Join(Split(t), <<" ">>)

\* The button is pressed on an empty block: a warning, nothing is parsed.
ClickEmpty ==
    /\ bpc = "click"
    /\ Strip(raw_block) = <<>>
    /\ message' = "warning"
    /\ bpc' = "done"
    /\ UNCHANGED <<raw_block, parts, bi, count, reports, inserted,
                   rainVars, formatVars, metarVars>>

\* The button is pressed on a non-empty block: the block is split.
ClickSplit ==
    /\ bpc = "click"
    /\ Strip(raw_block) # <<>>
    /\ parts' = SplitParts(Strip(raw_block))
    /\ count' = 0
    /\ bpc' = "loop"
    /\ UNCHANGED <<raw_block, bi, reports, inserted, message,
                   rainVars, formatVars, metarVars>>

\* An iteration of the loop on an empty part: "continue".
SkipPart ==
    /\ bpc = "loop"
    /\ bi <= Len(parts)
    /\ Strip(parts[bi]) = <<>>
    /\ bi' = bi + 1
    /\ UNCHANGED <<raw_block, parts, count, reports, inserted, message, bpc,
                   rainVars, formatVars, metarVars>>

\* An iteration of the loop on a non-empty part: it is parsed and saved.
ParsePart ==
    /\ bpc = "loop"
    /\ bi <= Len(parts)
    /\ Strip(parts[bi]) # <<>>
    /\ LET one_line == OneLine(Strip(parts[bi]))
       IN  /\ reports' = Append(reports, one_line)
           /\ inserted' = Append(inserted, parse_metar(one_line))
    /\ count' = count + 1
    /\ bi' = bi + 1
    /\ UNCHANGED <<raw_block, parts, message, bpc, rainVars, formatVars, metarVars>>

\* The loop is over: the success message.
ReportCount ==
    /\ bpc = "loop"
    /\ bi > Len(parts)
    /\ message' = "success"
    /\ bpc' = "done"
    /\ UNCHANGED <<raw_block, parts, bi, count, reports, inserted,
                   rainVars, formatVars, metarVars>>

BatchNext == ClickEmpty \/ ClickSplit \/ SkipPart \/ ParsePart \/ ReportCount

SpecBatch == BatchInit /\ [][BatchNext]_vars

----------------------------------------------------------------------------
(* Properties of the batch splitting of page_metar *)

\* The runs of consecutive non-blank lines of the lines from i on; cur is
\* the run being read.
RECURSIVE LineGroups(_, _, _)
LineGroups(lines, i, cur) ==
    IF i > Len(lines) THEN (IF cur = <<>> THEN <<>> ELSE <<cur>>)
    ELSE IF Strip(lines[i]) = <<>>
         THEN (IF cur = <<>> THEN <<>> ELSE <<cur>>) \o LineGroups(lines, i + 1, <<>>)
         ELSE LineGroups(lines, i + 1, cur \o <<" ">> \o lines[i])

\* The normalised segments of the parts from i on, a segment ending at an
\* "=" and at a blank line.
RECURSIVE SegmentsByEqualsAndBlankLines(_, _)
SegmentsByEqualsAndBlankLines(ps, i) ==
    IF i > Len(ps) THEN <<>>
    ELSE LET groups == LineGroups(SplitOn(ps[i], "\n"), 1, <<>>)
         IN  [k \in 1..Len(groups) |-> Join(Split(groups[k]), <<" ">>)]
                 \o SegmentsByEqualsAndBlankLines(ps, i + 1)

\* C10 as stated: the reports are the normalised non-empty segments of the
\* block in input order, a segment ending at an "=" and at a blank line.
C10_SplitOnEqualsAndBlankLines ==
    bpc = "done" =>
        reports = SegmentsByEqualsAndBlankLines(SplitOn(raw_block, "="), 1)

\* position i starts a report: a character that is neither whitespace nor
\* "=", with only whitespace between it and the previous "=" (or the start)
StartsReport(t, i) ==
    /\ NotSpaceNorEquals(t[i])
    /\ \A j \in 1..(i - 1) :
            NotSpaceNorEquals(t[j]) => \E m \in (j + 1)..(i - 1) : t[m] = "="




\* C10 amended: the reports are the normalised non-empty segments of the
\* block in input order, a segment ending at an "=" only: there is one
\* report per "="-delimited segment that holds a non-space character, every
\* report is normalised (no "=", single spaces only, none leading or
\* trailing, not empty), the reports together hold the non-space characters
\* of the block in order (nothing dropped, duplicates kept), each is handed
\* to parse_metar and counted; a blank line does not end a report.
C10_SplitOnEqualsOnly ==
    bpc = "done" =>
        /\ Len(reports) = Cardinality({i \in 1..Len(raw_block) : StartsReport(raw_block, i)})
        /\ \A k \in 1..Len(reports) : reports[k] # <<>> /\ IsNormalized(reports[k])
        /\ SelectSeq(Concat(reports), NotSpace) = SelectSeq(raw_block, NotSpaceNorEquals)
        /\ count = Len(reports)
        /\ Len(inserted) = Len(reports)
        /\ \A k \in 1..Len(reports) : inserted[k].raw = reports[k]

\* A block of two reports separated by a blank line only: one report.
C10_Witness ==
    /\ bpc = "done"
    /\ raw_block = <<"R", "A", "\n", "\n", "9", "9", "9", "9">>
    /\ reports = <<<<"R", "A", " ", "9", "9", "9", "9">>>>
    /\ count = 1

====
